---------------------------- MODULE Spec2Model ----------------------------
(***************************************************************************)
(* Narratix: transcript -> storyboard (agents/storyboard_agent.py) ->      *)
(* generated Manim program (renderer/manim_renderer.py).                   *)
(*                                                                         *)
(* Text is a sequence of symbols.  A symbol is one character ("{", "\"",   *)
(* "x", "0", " ") or an indivisible run of letters ("scenes", "WHITE").    *)
(* A JSON value is a record of one fixed shape, so that any two values can *)
(* be compared:                                                            *)
(*   k     "null" | "bool" | "int" | "float" | "str" | "list" | "obj"      *)
(*   n     the integer, 0/1 for a bool, the number of tenths for a float   *)
(*   s     the text of a string                                            *)
(*   keys  the keys of an object, in insertion order (Python dict order)   *)
(*   items the items of a list, or the values of an object, by key         *)
(***************************************************************************)
EXTENDS Integers, Sequences, FiniteSets, TLC

\* ------------------------------------------------------------------ values

JNull == [k |-> "null", n |-> 0, s |-> <<>>, keys |-> <<>>, items |-> <<>>]

JBool(b) == [k |-> "bool", n |-> IF b THEN 1 ELSE 0, s |-> <<>>, keys |-> <<>>, items |-> <<>>]

JInt(i) == [k |-> "int", n |-> i, s |-> <<>>, keys |-> <<>>, items |-> <<>>]

JFloat(tenths) == [k |-> "float", n |-> tenths, s |-> <<>>, keys |-> <<>>, items |-> <<>>]

JStr(t) == [k |-> "str", n |-> 0, s |-> t, keys |-> <<>>, items |-> <<>>]

JList(xs) == [k |-> "list", n |-> 0, s |-> <<>>, keys |-> <<>>, items |-> xs]

JObj(ks, vs) == [k |-> "obj", n |-> 0, s |-> <<>>, keys |-> ks, items |-> vs]

\* isinstance(v, dict) / list / str
IsDict(v) == v.k = "obj"

IsList(v) == v.k = "list"

IsStr(v) == v.k = "str"

\* Python truthiness, as `or` and `if x` use it
Truthy(v) ==
    CASE v.k = "null"  -> FALSE
      [] v.k = "bool"  -> v.n = 1
      [] v.k = "int"   -> v.n # 0
      [] v.k = "float" -> v.n # 0
      [] v.k = "str"   -> Len(v.s) > 0
      [] v.k = "list"  -> Len(v.items) > 0
      [] v.k = "obj"   -> Len(v.keys) > 0

\* key in d
HasKey(d, key) == \E i \in 1..Len(d.keys) : d.keys[i] = key

KeyIndex(d, key) == CHOOSE i \in 1..Len(d.keys) : d.keys[i] = key

\* d.get(key, dflt)
Get(d, key, dflt) == IF HasKey(d, key) THEN d.items[KeyIndex(d, key)] ELSE dflt

\* d[key] = val : a present key keeps its place, a new key goes last
SetKey(d, key, val) ==
    IF HasKey(d, key)
    THEN [d EXCEPT !.items[KeyIndex(d, key)] = val]
    ELSE [d EXCEPT !.keys = Append(@, key), !.items = Append(@, val)]

\* a or b, on values
Or(a, b) == IF Truthy(a) THEN a ELSE b

\* ------------------------------------------------------------------- text

Q == "\""

BS == "\\"

NL == "\n"

CR == "\r"

Digits == {"0", "1", "2", "3", "4", "5", "6", "7", "8", "9"}

DigitVal(c) ==
    CASE c = "0" -> 0 [] c = "1" -> 1 [] c = "2" -> 2 [] c = "3" -> 3 [] c = "4" -> 4
      [] c = "5" -> 5 [] c = "6" -> 6 [] c = "7" -> 7 [] c = "8" -> 8 [] c = "9" -> 9

DigitSym(d) ==
    CASE d = 0 -> "0" [] d = 1 -> "1" [] d = 2 -> "2" [] d = 3 -> "3" [] d = 4 -> "4"
      [] d = 5 -> "5" [] d = 6 -> "6" [] d = 7 -> "7" [] d = 8 -> "8" [] d = 9 -> "9"

\* whitespace, for json's scanner and for str.strip()
WS == {" ", NL, CR}

RECURSIVE SkipWs(_, _)
SkipWs(t, p) == IF p <= Len(t) /\ t[p] \in WS THEN SkipWs(t, p + 1) ELSE p

RECURSIVE SkipWsBack(_, _)
SkipWsBack(t, p) == IF p >= 1 /\ t[p] \in WS THEN SkipWsBack(t, p - 1) ELSE p

\* t.strip()
Strip(t) ==
    LET a == SkipWs(t, 1)
        b == SkipWsBack(t, Len(t))
    IN  IF a > b THEN <<>> ELSE SubSeq(t, a, b)

\* t.find(c), 1-based; 0 when absent (Python's -1)
Find(t, c) ==
    IF \E i \in 1..Len(t) : t[i] = c
    THEN CHOOSE i \in 1..Len(t) : t[i] = c /\ \A j \in 1..(i - 1) : t[j] # c
    ELSE 0

\* needle in t, for strings
Contains(t, needle) ==
    \E i \in 1..(Len(t) - Len(needle) + 1) : SubSeq(t, i, i + Len(needle) - 1) = needle

\* t.startswith(c) for a one-symbol prefix
StartsWith(t, c) == Len(t) >= 1 /\ t[1] = c

RECURSIVE NatSyms(_)
NatSyms(i) == IF i < 10 THEN <<DigitSym(i)>> ELSE Append(NatSyms(i \div 10), DigitSym(i % 10))

\* str(i) of an integer
IntSyms(i) == IF i < 0 THEN <<"-">> \o NatSyms(0 - i) ELSE NatSyms(i)

\* str(x) of a float held in tenths
FloatSyms(x) ==
    IF x < 0 THEN <<"-">> \o NatSyms((0 - x) \div 10) \o <<".">> \o NatSyms((0 - x) % 10)
    ELSE NatSyms(x \div 10) \o <<".">> \o NatSyms(x % 10)

\* ------------------------------------------------------------- json.loads

PFail == [ok |-> FALSE, v |-> JNull, p |-> 0]

POk(val, pos) == [ok |-> TRUE, v |-> val, p |-> pos]

\* the body of a string literal from position q (after the opening quote)
RECURSIVE ParseStringBody(_, _, _)
ParseStringBody(t, q, acc) ==
    IF q > Len(t) THEN PFail
    ELSE IF t[q] = Q THEN POk(JStr(acc), q + 1)
    ELSE IF t[q] \in {NL, CR} THEN PFail
    ELSE IF t[q] = BS THEN
        IF q + 1 > Len(t) THEN PFail
        ELSE IF t[q + 1] \in {Q, BS} THEN ParseStringBody(t, q + 2, Append(acc, t[q + 1]))
        ELSE IF t[q + 1] = "n" THEN ParseStringBody(t, q + 2, Append(acc, NL))
        ELSE IF t[q + 1] = "r" THEN ParseStringBody(t, q + 2, Append(acc, CR))
        ELSE PFail
    ELSE ParseStringBody(t, q + 1, Append(acc, t[q]))

RECURSIVE ParseDigits(_, _, _)
ParseDigits(t, q, acc) ==
    IF q <= Len(t) /\ t[q] \in Digits
    THEN ParseDigits(t, q + 1, 10 * acc + DigitVal(t[q]))
    ELSE POk(JInt(acc), q)

\* the fraction after the integer part r: one digit, the model's floats being tenths
WithFraction(t, r) ==
    IF r.p + 1 <= Len(t) /\ t[r.p] = "." /\ t[r.p + 1] \in Digits
    THEN POk(JFloat(10 * r.v.n + DigitVal(t[r.p + 1])), r.p + 2)
    ELSE r

\* an unsigned number: 0, or a non-zero digit and more digits, and a fraction
ParseUnsigned(t, q) ==
    IF q > Len(t) \/ t[q] \notin Digits THEN PFail
    ELSE WithFraction(t, IF t[q] = "0" THEN POk(JInt(0), q + 1) ELSE ParseDigits(t, q, 0))

Negated(r) == IF r.ok THEN [r EXCEPT !.v.n = 0 - @] ELSE r

\* a number literal
ParseNumber(t, q) ==
    IF t[q] = "-" THEN Negated(ParseUnsigned(t, q + 1)) ELSE ParseUnsigned(t, q)

RECURSIVE ParseValue(_, _)
RECURSIVE ParseElements(_, _, _)
RECURSIVE ParseMembers(_, _, _)

\* after the item r of an array: "," and the next item, or "]"
AfterElement(t, acc, r, q2) ==
    IF ~r.ok \/ q2 > Len(t) THEN PFail
    ELSE IF t[q2] = "," THEN ParseElements(t, q2 + 1, Append(acc, r.v))
    ELSE IF t[q2] = "]" THEN POk(JList(Append(acc, r.v)), q2 + 1)
    ELSE PFail

ElementParsed(t, acc, r) == AfterElement(t, acc, r, IF r.ok THEN SkipWs(t, r.p) ELSE 0)

\* the items of an array from position q, after those in acc
ParseElements(t, q, acc) == ElementParsed(t, acc, ParseValue(t, q))

\* after the value r of the member key: "," and the next member, or "}"
AfterMember(t, obj, key, r, q3) ==
    IF ~r.ok \/ q3 > Len(t) THEN PFail
    ELSE IF t[q3] = "," THEN ParseMembers(t, q3 + 1, SetKey(obj, key, r.v))
    ELSE IF t[q3] = "}" THEN POk(SetKey(obj, key, r.v), q3 + 1)
    ELSE PFail

MemberParsed(t, obj, key, r) == AfterMember(t, obj, key, r, IF r.ok THEN SkipWs(t, r.p) ELSE 0)

\* after the key of a member: ":" and its value
AfterKey(t, obj, key, q2) ==
    IF ~key.ok \/ q2 > Len(t) THEN PFail
    ELSE IF t[q2] # ":" THEN PFail
    ELSE MemberParsed(t, obj, key.v.s, ParseValue(t, q2 + 1))

KeyParsed(t, obj, key) == AfterKey(t, obj, key, IF key.ok THEN SkipWs(t, key.p) ELSE 0)

MembersAt(t, q1, obj) ==
    IF q1 > Len(t) THEN PFail
    ELSE IF t[q1] # Q THEN PFail
    ELSE KeyParsed(t, obj, ParseStringBody(t, q1 + 1, <<>>))

\* the members of an object from position q, after those in obj
ParseMembers(t, q, obj) == MembersAt(t, SkipWs(t, q), obj)

ObjectAt(t, q, q1) ==
    IF q1 <= Len(t) /\ t[q1] = "}" THEN POk(JObj(<<>>, <<>>), q1 + 1)
    ELSE ParseMembers(t, q + 1, JObj(<<>>, <<>>))

ArrayAt(t, q, q1) ==
    IF q1 <= Len(t) /\ t[q1] = "]" THEN POk(JList(<<>>), q1 + 1)
    ELSE ParseElements(t, q + 1, <<>>)

ValueAt(t, q) ==
    IF q > Len(t) THEN PFail
    ELSE IF t[q] = "{" THEN ObjectAt(t, q, SkipWs(t, q + 1))
    ELSE IF t[q] = "[" THEN ArrayAt(t, q, SkipWs(t, q + 1))
    ELSE IF t[q] = Q THEN ParseStringBody(t, q + 1, <<>>)
    ELSE IF t[q] \in Digits \cup {"-"} THEN ParseNumber(t, q)
    ELSE IF t[q] = "null" THEN POk(JNull, q + 1)
    ELSE IF t[q] = "true" THEN POk(JBool(TRUE), q + 1)
    ELSE IF t[q] = "false" THEN POk(JBool(FALSE), q + 1)
    ELSE PFail

\* the JSON value that starts at position p, after whitespace
ParseValue(t, p) == ValueAt(t, SkipWs(t, p))

WholeText(t, r) == IF r.ok /\ SkipWs(t, r.p) = Len(t) + 1 THEN r ELSE PFail

\* json.loads(t): ok = FALSE is JSONDecodeError
Loads(t) == WholeText(t, ParseValue(t, 1))

\* ------------------------------------------------------------- json.dumps

EscapeSym(c) ==
    IF c \in {Q, BS} THEN <<BS, c>>
    ELSE IF c = NL THEN <<BS, "n">>
    ELSE IF c = CR THEN <<BS, "r">>
    ELSE <<c>>

\* the escaped symbols a..b of t
RECURSIVE EscapeRange(_, _, _)
EscapeRange(t, a, b) ==
    IF a > b THEN <<>>
    ELSE IF a = b THEN EscapeSym(t[a])
    ELSE EscapeRange(t, a, (a + b) \div 2) \o EscapeRange(t, (a + b) \div 2 + 1, b)

EscapeStr(t) == EscapeRange(t, 1, Len(t))

DumpStr(t) == <<Q>> \o EscapeStr(t) \o <<Q>>

RECURSIVE Dumps(_)
RECURSIVE DumpItems(_, _)
RECURSIVE DumpMembers(_, _)

DumpItems(xs, i) ==
    IF i > Len(xs) THEN <<>>
    ELSE (IF i > 1 THEN <<",", " ">> ELSE <<>>) \o Dumps(xs[i]) \o DumpItems(xs, i + 1)

DumpMembers(d, i) ==
    IF i > Len(d.keys) THEN <<>>
    ELSE (IF i > 1 THEN <<",", " ">> ELSE <<>>) \o DumpStr(d.keys[i]) \o <<":", " ">>
         \o Dumps(d.items[i]) \o DumpMembers(d, i + 1)

\* json.dumps(v), with the default separators
Dumps(v) ==
    CASE v.k = "null"  -> <<"null">>
      [] v.k = "bool"  -> IF v.n = 1 THEN <<"true">> ELSE <<"false">>
      [] v.k = "int"   -> IntSyms(v.n)
      [] v.k = "float" -> FloatSyms(v.n)
      [] v.k = "str"   -> DumpStr(v.s)
      [] v.k = "list"  -> <<"[">> \o DumpItems(v.items, 1) \o <<"]">>
      [] v.k = "obj"   -> <<"{">> \o DumpMembers(v, 1) \o <<"}">>

\* ---------------------------------------------------------- str() and int()

\* the body of repr(t) between quotes q
ReprBody(t, q) ==
    LET Esc[j \in 0..Len(t)] ==
            IF j = 0 THEN <<>>
            ELSE Esc[j - 1] \o (IF t[j] = BS THEN <<BS, BS>>
                                ELSE IF t[j] = NL THEN <<BS, "n">>
                                ELSE IF t[j] = CR THEN <<BS, "r">>
                                ELSE IF t[j] = q THEN <<BS, q>>
                                ELSE <<t[j]>>)
    IN  <<q>> \o Esc[Len(t)] \o <<q>>

\* repr(t) of a string, as str() of a list or a dict shows its strings: in double
\* quotes when t holds a single quote and no double quote
ReprStr(t) ==
    IF (\E j \in 1..Len(t) : t[j] = "'") /\ ~(\E j \in 1..Len(t) : t[j] = Q)
    THEN ReprBody(t, Q)
    ELSE ReprBody(t, "'")

RECURSIVE PyRepr(_)
RECURSIVE ReprItems(_, _)
RECURSIVE ReprMembers(_, _)

ReprItems(xs, j) ==
    IF j > Len(xs) THEN <<>>
    ELSE (IF j > 1 THEN <<",", " ">> ELSE <<>>) \o PyRepr(xs[j]) \o ReprItems(xs, j + 1)

ReprMembers(d, j) ==
    IF j > Len(d.keys) THEN <<>>
    ELSE (IF j > 1 THEN <<",", " ">> ELSE <<>>) \o ReprStr(d.keys[j]) \o <<":", " ">>
         \o PyRepr(d.items[j]) \o ReprMembers(d, j + 1)

PyRepr(v) ==
    CASE v.k = "null"  -> <<"None">>
      [] v.k = "bool"  -> IF v.n = 1 THEN <<"True">> ELSE <<"False">>
      [] v.k = "int"   -> IntSyms(v.n)
      [] v.k = "float" -> FloatSyms(v.n)
      [] v.k = "str"   -> ReprStr(v.s)
      [] v.k = "list"  -> <<"[">> \o ReprItems(v.items, 1) \o <<"]">>
      [] v.k = "obj"   -> <<"{">> \o ReprMembers(v, 1) \o <<"}">>

\* str(v)
PyStr(v) == IF v.k = "str" THEN v.s ELSE PyRepr(v)

\* int(t) of a stripped string t
IntOfDigits(t, d) ==
    IF Len(d) >= 1 /\ (\A j \in 1..Len(d) : d[j] \in Digits)
    THEN [err |-> "none",
          n |-> IF t[1] = "-" THEN 0 - ParseDigits(d, 1, 0).v.n ELSE ParseDigits(d, 1, 0).v.n]
    ELSE [err |-> "ValueError", n |-> 0]

IntOfStr(t) ==
    IntOfDigits(t, IF Len(t) >= 1 /\ t[1] \in {"-", "+"} THEN Tail(t) ELSE t)

\* int(v): err is "none", "ValueError" or "TypeError"
PyInt(v) ==
    CASE v.k \in {"int", "bool"} -> [err |-> "none", n |-> v.n]
      [] v.k = "float" ->
            [err |-> "none", n |-> IF v.n >= 0 THEN v.n \div 10 ELSE 0 - ((0 - v.n) \div 10)]
      [] v.k = "str" -> IntOfStr(Strip(v.s))
      [] OTHER -> [err |-> "TypeError", n |-> 0]

\* ---------------------------------- StoryboardAgent.generate_storyboard

K(word) == <<word>>

GENERATED_TITLE == <<"Generated", " ", "Storyboard">>

FALLBACK_DESCRIPTION ==
    <<"Auto-generated", " ", "fallback", " ", "storyboard", " ", "due", " ", "to", " ",
      "non-JSON", " ", "model", " ", "output">>

\* the element a bare string is coerced into (lines 234-241)
TextElement(content) ==
    JObj(<<K("type"), K("content"), K("position"), K("color"), K("animation"), K("scale")>>,
         <<JStr(K("text")), content, JList(<<JInt(0), JInt(0)>>), JStr(K("WHITE")),
           JStr(K("FadeIn")), JFloat(10)>>)

\* DictElement reading the content under the wrong key
DictElement_WrongKey(e) ==
    JObj(<<K("type"), K("content"), K("position"), K("color"), K("animation"), K("scale")>>,
         <<Get(e, K("type"), JStr(K("text"))),
           Get(e, K("text"), JStr(<<>>)),
           Get(e, K("position"), JList(<<JInt(0), JInt(0)>>)),
           Get(e, K("color"), JStr(K("WHITE"))),
           Get(e, K("animation"), JStr(K("FadeIn"))),
           Get(e, K("scale"), JFloat(10))>>)

\* the element a structured entry is copied into (lines 245-252)
DictElement(e) ==
    JObj(<<K("type"), K("content"), K("position"), K("color"), K("animation"), K("scale")>>,
         <<Get(e, K("type"), JStr(K("text"))),
           Get(e, K("content"), JStr(<<>>)),
           Get(e, K("position"), JList(<<JInt(0), JInt(0)>>)),
           Get(e, K("color"), JStr(K("WHITE"))),
           Get(e, K("animation"), JStr(K("FadeIn"))),
           Get(e, K("scale"), JFloat(10))>>)

\* what `for e in elements` visits; ok = FALSE is TypeError (not iterable)
IterOf(v) ==
    CASE v.k = "list" -> [ok |-> TRUE, items |-> v.items]
      [] v.k = "str"  -> [ok |-> TRUE, items |-> [j \in 1..Len(v.s) |-> JStr(<<v.s[j]>>)]]
      [] v.k = "obj"  -> [ok |-> TRUE, items |-> [j \in 1..Len(v.keys) |-> JStr(v.keys[j])]]
      [] OTHER        -> [ok |-> FALSE, items |-> <<>>]

RECURSIVE NormalizeElements(_)

\* lines 233-252: what one entry adds to normalized_elements
ElementOf(e) ==
    IF IsStr(e) THEN <<TextElement(e)>>
    ELSE IF ~IsDict(e) THEN <<>>
    ELSE <<DictElement(e)>>

\* the loop of lines 232-252 over the entries es
NormalizeElements(es) ==
    IF es = <<>> THEN <<>> ELSE ElementOf(Head(es)) \o NormalizeElements(Tail(es))

\* line 223-224: a scene entry that is not a dict
AsScene(s0) == IF ~IsDict(s0) THEN JObj(<<K("narration")>>, <<JStr(PyStr(s0))>>) ELSE s0

\* line 225
SceneIdOf(s, idx) == Or(Or(Get(s, K("scene_id"), JNull), Get(s, K("id"), JNull)), JInt(idx))

\* line 226
DurationOf(s) == Get(s, K("duration"), JInt(5))

\* line 227
NarrationOf(s) ==
    Or(Or(Or(Get(s, K("narration"), JNull), Get(s, K("description"), JNull)),
          Get(s, K("text"), JNull)), JStr(<<>>))

\* line 228
AnimationTypeOf(s) ==
    Or(Or(Get(s, K("animation_type"), JNull), Get(s, K("type"), JNull)), JStr(K("text")))

\* line 230
ElementsOf(s) == Or(Or(Get(s, K("elements"), JNull), Get(s, K("actions"), JNull)), JList(<<>>))

\* lines 232-260, given what the loop over the elements and int(scene_id) gave
SceneResult(s, it, sid) ==
    IF ~it.ok THEN [err |-> "TypeError", v |-> JNull]
    ELSE IF sid.err # "none" THEN [err |-> sid.err, v |-> JNull]
    ELSE [err |-> "none",
          v |-> JObj(<<K("scene_id"), K("duration"), K("narration"), K("animation_type"),
                       K("elements")>>,
                     <<JInt(sid.n), DurationOf(s), NarrationOf(s), AnimationTypeOf(s),
                       JList(NormalizeElements(it.items))>>)]

NormalizeDictScene(s, idx) == SceneResult(s, IterOf(ElementsOf(s)), PyInt(SceneIdOf(s, idx)))

\* one pass of the loop of lines 222-260, for the scene s0 at 1-based position idx
NormalizeScene(s0, idx) == NormalizeDictScene(AsScene(s0), idx)

RECURSIVE NormalizeScenes(_, _, _)

SceneNormalized(scenes, idx, normalized, r) ==
    IF r.err # "none" THEN r ELSE NormalizeScenes(scenes, idx + 1, Append(normalized, r.v))

\* the loop of lines 222-260 from position idx on
NormalizeScenes(scenes, idx, normalized) ==
    IF idx > Len(scenes) THEN [err |-> "none", v |-> JList(normalized)]
    ELSE SceneNormalized(scenes, idx, normalized, NormalizeScene(scenes[idx], idx))

\* lines 216-217
WithTitle(d) ==
    IF ~HasKey(d, K("title")) THEN SetKey(d, K("title"), JStr(GENERATED_TITLE)) ELSE d

\* lines 218-219
WithScenesList(d) ==
    IF ~HasKey(d, K("scenes")) \/ ~IsList(Get(d, K("scenes"), JNull))
    THEN SetKey(d, K("scenes"), JList(<<>>)) ELSE d

\* line 262
WithScenes(d, r) ==
    IF r.err # "none" THEN r ELSE [err |-> "none", v |-> SetKey(d, K("scenes"), r.v)]

\* lines 221-263
WithNormalizedScenes(d) ==
    WithScenes(d, NormalizeScenes(Get(d, K("scenes"), JNull).items, 1, <<>>))

\* _normalize(sb) (lines 213-263); err names the exception that escapes it
Normalize(d) ==
    IF ~IsDict(d) THEN [err |-> "none", v |-> d]
    ELSE WithNormalizedScenes(WithScenesList(WithTitle(d)))

\* the fallback storyboard of lines 189-210
FallbackStoryboard(text) ==
    JObj(<<K("title"), K("description"), K("scenes")>>,
         <<JStr(GENERATED_TITLE), JStr(FALLBACK_DESCRIPTION),
           JList(<<JObj(<<K("scene_id"), K("duration"), K("narration"), K("animation_type"),
                         K("elements")>>,
                       <<JInt(1), JInt(5), JStr(Strip(text)), JStr(K("text")),
                         JList(<<TextElement(JStr(Strip(text)))>>)>>)>>)>>)

\* ------------------------------------ ManimRenderer._normalize_storyboard

\* storyboard.get(f) moved into merged when merged lacks f (lines 36-39)
MergeField(merged, outer, f) ==
    IF ~HasKey(merged, f) /\ HasKey(outer, f)
    THEN SetKey(merged, f, Get(outer, f, JNull))
    ELSE merged

\* lines 35-40
Merged(parsed, outer) ==
    MergeField(MergeField(parsed, outer, K("title")), outer, K("description"))

\* line 29, reading the scene's narration instead
SceneDescription_Narration(first) == Get(first, K("narration"), JStr(<<>>))

\* line 29
SceneDescription(first) == Get(first, K("description"), JStr(<<>>))

\* line 30
LooksNested(desc) ==
    /\ IsStr(desc)
    /\ \/ Contains(desc.s, <<Q, "scenes", Q>>)
       \/ Contains(desc.s, <<Q, "scene_id", Q>>)
       \/ StartsWith(Strip(desc.s), "{")

\* lines 31-43, given what json.loads(desc) gave
NestedOrOuter(outer, r) ==
    IF r.ok /\ IsDict(r.v) /\ HasKey(r.v, K("scenes")) /\ IsList(Get(r.v, K("scenes"), JNull))
    THEN Merged(r.v, outer)
    ELSE outer

\* lines 28-44 for the only scene
FromFirstScene(outer, first, desc) ==
    IF ~IsDict(first) THEN [err |-> "AttributeError", v |-> JNull]
    ELSE IF LooksNested(desc)
    THEN [err |-> "none", v |-> NestedOrOuter(outer, Loads(desc.s))]
    ELSE [err |-> "none", v |-> outer]

\* lines 27-44
FromScenes(outer, scenes) ==
    IF IsList(scenes) /\ Len(scenes.items) = 1
    THEN FromFirstScene(outer, scenes.items[1],
                        IF IsDict(scenes.items[1]) THEN SceneDescription(scenes.items[1])
                        ELSE JNull)
    ELSE [err |-> "none", v |-> outer]

\* _normalize_storyboard(storyboard) (lines 25-44); err names the exception
\* that escapes it
NormalizeStoryboard(outer) ==
    IF ~IsDict(outer) THEN [err |-> "AttributeError", v |-> JNull]
    ELSE FromScenes(outer, Get(outer, K("scenes"), JList(<<>>)))

\* --------------------------------------- ManimRenderer._generate_scene_code
\*
\* The emitted program is a sequence of lines.  A line records which statement
\* of the generator wrote it (kind), for which scene and element, and its text;
\* `of` tells, symbol by symbol, whether the symbol is the generator's own text
\* ("code") or came from a field of the storyboard (the field's name).

INDENT == "        "

\* the text t, written by the generator itself or read from the field `tag`
P(t, tag) == [syms |-> t, of |-> [j \in 1..Len(t) |-> tag]]

RECURSIVE Cat(_)
Cat(ps) ==
    IF ps = <<>> THEN [syms |-> <<>>, of |-> <<>>]
    ELSE [syms |-> Head(ps).syms \o Cat(Tail(ps)).syms, of |-> Head(ps).of \o Cat(Tail(ps)).of]

CodeLine(kind, scene, elem, ps) ==
    [kind |-> kind, scene |-> scene, elem |-> elem, syms |-> Cat(ps).syms, of |-> Cat(ps).of]

\* f"{d.get(f, dflt)}": str() of the value, marked as the storyboard's when d has f
Fmt(d, f, dflt) == P(PyStr(Get(d, f, dflt)), IF HasKey(d, f) THEN f[1] ELSE "code")

\* lines 48-52
Header ==
    << CodeLine("header", 0, 0, <<P(<<"from manim import *">>, "code")>>),
       CodeLine("header", 0, 0, <<>>),
       CodeLine("header", 0, 0, <<P(<<"class GeneratedScene(Scene):">>, "code")>>),
       CodeLine("header", 0, 0, <<P(<<"    def construct(self):">>, "code")>>) >>

\* line 56, as line 60 and line 66 format it
SceneIdText(scene, i) ==
    IF HasKey(scene, K("scene_id")) THEN P(PyStr(Get(scene, K("scene_id"), JNull)), "scene_id")
    ELSE IF HasKey(scene, K("id")) THEN P(PyStr(Get(scene, K("id"), JNull)), "id")
    ELSE P(IntSyms(i), "code")

\* line 57
SceneNarration(scene) ==
    Get(scene, K("narration"), Get(scene, K("description"), JStr(<<>>)))

\* t.replace("\n", " ").replace("\r", " ")
OneLine(t) == [j \in 1..Len(t) |-> IF t[j] \in {NL, CR} THEN " " ELSE t[j]]

\* t[:n], counting characters: a symbol that crosses the limit is cut
RECURSIVE TakeChars(_, _)
TakeChars(t, n) ==
    IF t = <<>> \/ n <= 0 THEN <<>>
    ELSE IF Len(Head(t)) > n THEN <<SubSeq(Head(t), 1, n)>>
    ELSE <<Head(t)>> \o TakeChars(Tail(t), n - Len(Head(t)))

COMMENT_WIDTH == 70

\* lines 59-60; a narration that is true and has no replace() is an AttributeError
CommentLine(scene, i, narration) ==
    IF Truthy(narration) /\ ~IsStr(narration) THEN [err |-> "AttributeError", code |-> <<>>]
    ELSE [err |-> "none",
          code |-> << CodeLine("blank", i, 0, <<>>),
                      CodeLine("comment", i, 0,
                               << P(<<INDENT, "#", " Scene ">>, "code"),
                                  SceneIdText(scene, i),
                                  P(<<":", " ">>, "code"),
                                  P(TakeChars(OneLine(IF IsStr(narration) THEN narration.s ELSE <<>>),
                                              COMMENT_WIDTH),
                                    IF HasKey(scene, K("narration")) THEN "narration"
                                    ELSE IF HasKey(scene, K("description")) THEN "description"
                                    ELSE "code"),
                                  P(<<"...">>, "code") >>) >>]

\* line 66
VarName(scene, i, idx) ==
    Cat(<<P(<<"elem_">>, "code"), SceneIdText(scene, i), P(<<"_">>, "code"),
          P(IntSyms(idx), "code")>>)

\* ---------------------------------------- ManimRenderer._create_element_code

UpperChars ==
    {"A", "B", "C", "D", "E", "F", "G", "H", "I", "J", "K", "L", "M", "N", "O", "P", "Q", "R",
     "S", "T", "U", "V", "W", "X", "Y", "Z"}

LowerChars ==
    {"a", "b", "c", "d", "e", "f", "g", "h", "i", "j", "k", "l", "m", "n", "o", "p", "q", "r",
     "s", "t", "u", "v", "w", "x", "y", "z"}

\* the characters of the text t
CharsOf(t) == UNION {{SubSeq(t[j], c, c) : c \in 1..Len(t[j])} : j \in 1..Len(t)}

\* t.isupper(): a cased character, and no lowercase one
IsUpper(t) == CharsOf(t) \cap UpperChars # {} /\ CharsOf(t) \cap LowerChars = {}

\* line 109
ColorLiteral(element) ==
    IF IsStr(Get(element, K("color"), JStr(K("WHITE"))))
       /\ IsUpper(Get(element, K("color"), JStr(K("WHITE"))).s)
    THEN Fmt(element, K("color"), JStr(K("WHITE")))
    ELSE P(Dumps(Get(element, K("color"), JNull)), "color")

\* line 107
ContentLiteral(element) ==
    P(Dumps(Get(element, K("content"), JStr(<<>>))),
      IF HasKey(element, K("content")) THEN "content" ELSE "code")

\* lines 112-131: the constructor call for the element's type
Constructor(element) ==
    LET elem_type == Get(element, K("type"), JStr(K("text")))
    IN  IF elem_type = JStr(K("text"))
        THEN <<P(<<"Text(">>, "code"), ContentLiteral(element), P(<<")">>, "code")>>
        ELSE IF elem_type = JStr(K("equation"))
        THEN <<P(<<"MathTex(">>, "code"), ContentLiteral(element), P(<<")">>, "code")>>
        ELSE IF elem_type = JStr(K("circle")) THEN <<P(<<"Circle()">>, "code")>>
        ELSE IF elem_type = JStr(K("square")) THEN <<P(<<"Square()">>, "code")>>
        ELSE IF elem_type = JStr(K("arrow")) THEN <<P(<<"Arrow(start=LEFT, end=RIGHT)">>, "code")>>
        ELSE IF elem_type = JStr(K("line")) THEN <<P(<<"Line(start=LEFT, end=RIGHT)">>, "code")>>
        ELSE IF elem_type \in {JStr(K("axes")), JStr(K("graph"))} THEN <<P(<<"Axes()">>, "code")>>
        ELSE <<P(<<"Text(">>, "code"), P(Dumps(JStr(<<"Unknown element">>)), "code"),
               P(<<")">>, "code")>>

\* lines 98-104: list(position), with a third coordinate added to two
PositionOf(element) ==
    LET it == IterOf(Get(element, K("position"), JList(<<JInt(0), JInt(0), JInt(0)>>)))
    IN  IF ~it.ok THEN it
        ELSE IF Len(it.items) = 2 THEN [ok |-> TRUE, items |-> Append(it.items, JInt(0))]
        ELSE it

\* position[j], as line 136 formats it
Coordinate(element, position, j) ==
    P(PyStr(position[j]), IF HasKey(element, K("position")) THEN "position" ELSE "code")

\* lines 113-136, for an element that has the position read
ElementLines(var, element, i, idx, position) ==
    IF ~position.ok THEN [err |-> "TypeError", code |-> <<>>]
    ELSE IF Len(position.items) < 3 THEN [err |-> "IndexError", code |-> <<>>]
    ELSE [err |-> "none",
          code |-> << CodeLine("construct", i, idx,
                               <<P(<<INDENT>>, "code"), var, P(<<" = ">>, "code")>>
                               \o Constructor(element)),
                      CodeLine("set_color", i, idx,
                               <<P(<<INDENT>>, "code"), var, P(<<".set_color(">>, "code"),
                                 ColorLiteral(element), P(<<")">>, "code")>>),
                      CodeLine("scale", i, idx,
                               <<P(<<INDENT>>, "code"), var, P(<<".scale(">>, "code"),
                                 Fmt(element, K("scale"), JFloat(10)), P(<<")">>, "code")>>),
                      CodeLine("move_to", i, idx,
                               <<P(<<INDENT>>, "code"), var, P(<<".move_to([">>, "code"),
                                 Coordinate(element, position.items, 1), P(<<",", " ">>, "code"),
                                 Coordinate(element, position.items, 2), P(<<",", " ">>, "code"),
                                 Coordinate(element, position.items, 3), P(<<"])">>, "code")>>) >>]

\* _create_element_code(var_name, element) (lines 95-138), for element idx of
\* the scene at position i; an element without get() is an AttributeError
CreateElementCode(var, element, i, idx) ==
    IF ~IsDict(element) THEN [err |-> "AttributeError", code |-> <<>>]
    ELSE ElementLines(var, element, i, idx, PositionOf(element))

\* ------------------------------- _generate_scene_code: one scene of the loop

RECURSIVE ElementsCode(_, _, _, _)

ElementCreated(r, rest) ==
    IF r.err # "none" THEN r
    ELSE IF rest.err # "none" THEN rest
    ELSE [err |-> "none", code |-> r.code \o rest.code]

\* lines 65-70 from the element at 0-based position idx on
ElementsCode(scene, i, es, idx) ==
    IF idx >= Len(es) THEN [err |-> "none", code |-> <<>>]
    ELSE ElementCreated(CreateElementCode(VarName(scene, i, idx), es[idx + 1], i, idx),
                        ElementsCode(scene, i, es, idx + 1))

\* ', '.join(parts)
RECURSIVE CommaJoin(_)
CommaJoin(parts) ==
    IF parts = <<>> THEN <<>>
    ELSE IF Len(parts) = 1 THEN <<Head(parts)>>
    ELSE <<Head(parts), P(<<",", " ">>, "code")>> \o CommaJoin(Tail(parts))

\* line 78
Animation(scene, i, es, idx) ==
    Cat(<<Fmt(es[idx + 1], K("animation"), JStr(K("FadeIn"))), P(<<"(">>, "code"),
          VarName(scene, i, idx), P(<<")">>, "code")>>)

\* line 88
FadeOut(scene, i, idx) ==
    Cat(<<P(<<"FadeOut(">>, "code"), VarName(scene, i, idx), P(<<")">>, "code")>>)

\* line 84 without the max: duration - 1
WaitTime_NoFloor(duration) ==
    CASE duration.k \in {"int", "bool"} -> [ok |-> TRUE, v |-> JInt(duration.n - 1)]
      [] duration.k = "float" -> [ok |-> TRUE, v |-> JFloat(duration.n - 10)]
      [] OTHER -> [ok |-> FALSE, v |-> JNull]

\* line 84: max(0, duration - 1); ok = FALSE is the TypeError of line 84
WaitTime(duration) ==
    CASE duration.k \in {"int", "bool"} ->
            [ok |-> TRUE, v |-> IF duration.n - 1 > 0 THEN JInt(duration.n - 1) ELSE JInt(0)]
      [] duration.k = "float" ->
            [ok |-> TRUE, v |-> IF duration.n - 10 > 0 THEN JFloat(duration.n - 10) ELSE JInt(0)]
      [] OTHER -> [ok |-> FALSE, v |-> JNull]

DEFAULT_DURATION == 3

\* line 73, taking an empty list for true
HasElementVars_Always(es) == TRUE

\* line 73: `if element_vars:`
HasElementVars(es) == es # <<>>

\* lines 73-88, for the elements es of the scene
AnimateLines(scene, i, es, wait) ==
    IF ~HasElementVars(es) THEN [err |-> "none", code |-> <<>>]
    ELSE IF ~wait.ok THEN [err |-> "TypeError", code |-> <<>>]
    ELSE [err |-> "none",
          code |-> << CodeLine("play", i, 0,
                               <<P(<<INDENT, "self.play(">>, "code")>>
                               \o CommaJoin([x \in 1..Len(es) |-> Animation(scene, i, es, x - 1)])
                               \o <<P(<<")">>, "code")>>),
                      CodeLine("wait", i, 0,
                               <<P(<<INDENT, "self.wait(">>, "code"),
                                 P(PyStr(wait.v),
                                   IF HasKey(scene, K("duration")) THEN "duration" ELSE "code"),
                                 P(<<")">>, "code")>>),
                      CodeLine("fadeout", i, 0,
                               <<P(<<INDENT, "self.play(">>, "code")>>
                               \o CommaJoin([x \in 1..Len(es) |-> FadeOut(scene, i, x - 1)])
                               \o <<P(<<")">>, "code")>>) >>]

\* the lines of a scene, given those of its comment, elements and animations
SceneLines(comment, created, animated) ==
    IF comment.err # "none" THEN comment
    ELSE IF created.err # "none" THEN created
    ELSE IF animated.err # "none" THEN animated
    ELSE [err |-> "none", code |-> comment.code \o created.code \o animated.code]

\* lines 64-88, given what iterating the scene's elements gave
SceneElements(scene, i, it) ==
    IF ~it.ok
    THEN SceneLines(CommentLine(scene, i, SceneNarration(scene)),
                    [err |-> "TypeError", code |-> <<>>], [err |-> "none", code |-> <<>>])
    ELSE SceneLines(CommentLine(scene, i, SceneNarration(scene)),
                    ElementsCode(scene, i, it.items, 0),
                    AnimateLines(scene, i, it.items,
                                 WaitTime(Get(scene, K("duration"), JInt(DEFAULT_DURATION)))))

\* one pass of the loop of lines 55-88, for the scene at 1-based position i
SceneCode(scene, i) ==
    IF ~IsDict(scene) THEN [err |-> "AttributeError", code |-> <<>>]
    ELSE SceneElements(scene, i, IterOf(Get(scene, K("elements"), JList(<<>>))))

\* line 90
FinalWait == CodeLine("final_wait", 0, 0, <<P(<<INDENT, "self.wait(1)">>, "code")>>)

\* ------------------------------------------------------------------ state

VARIABLES
    result_text,   \* generate_storyboard: the text the completion backend returned
    storyboard,    \* generate_storyboard: the local `storyboard` (JNull is None)
    start,         \* the index of the first "{" (0: none)
    i,             \* the scanning loop's index
    count,         \* the scanning loop's brace depth
    candidates,    \* history: the spans handed to json.loads, <<from, to, parsed>>
    fellBack,      \* history: the fallback storyboard was built
    raised,        \* the exception that escaped generate_storyboard ("none")
    gpc,           \* where generate_storyboard is
    sb,            \* _normalize applied twice: its argument
    once,          \* _normalize(sb)
    twice,         \* _normalize(_normalize(sb))
    npc,           \* where the double application is
    ollama_max_retries, \* LLMConfig: int(OLLAMA_MAX_RETRIES)
    attempt,       \* OllamaLLM._call: read timeouts so far
    sent,          \* history: requests posted
    outcomes,      \* history: how each request ended
    slept,         \* history: the seconds of each time.sleep
    lines,         \* history: the stream lines consumed
    output,        \* the list of partial texts
    call_result,   \* what _call returned
    call_error,    \* the exception that escaped _call ("none")
    cpc,           \* where _call is
    loaded,        \* ManimRenderer: what _load_storyboard returned
    self_storyboard, \* self.storyboard
    scenes,        \* _generate_scene_code: the scenes the loop visits
    scene_i,       \* the scenes the loop has been through
    code,          \* _generate_scene_code: the lines emitted so far
    render_error,  \* the exception that escaped the renderer ("none")
    rpc            \* where the renderer is

genVars == <<result_text, storyboard, start, i, count, candidates, fellBack, raised, gpc>>

normVars == <<sb, once, twice, npc>>

callVars == <<ollama_max_retries, attempt, sent, outcomes, slept, lines, output, call_result,
              call_error, cpc>>

renderVars == <<loaded, self_storyboard, scenes, scene_i, code, render_error, rpc>>

vars == <<genVars, normVars, callVars, renderVars>>

\* ----------------------------------------------------------------- inputs

MaxScanLen == 5

MaxScenes == 2

SeqsUpTo(S, n) == UNION {[1..m -> S] : m \in 0..n}

Obj1(k1, v1) == JObj(<<K(k1)>>, <<v1>>)

Obj2(k1, v1, k2, v2) == JObj(<<K(k1), K(k2)>>, <<v1, v2>>)

Obj3(k1, v1, k2, v2, k3, v3) == JObj(<<K(k1), K(k2), K(k3)>>, <<v1, v2, v3>>)

FullElement ==
    JObj(<<K("type"), K("content"), K("position"), K("color"), K("animation"), K("scale"), K("z")>>,
         <<JStr(K("circle")), JStr(K("c")), JList(<<JInt(1), JInt(2)>>), JStr(K("RED")),
           JStr(K("Write")), JInt(2), JInt(1)>>)

\* scene entries a model can answer with
SceneSamples ==
    { JObj(<<>>, <<>>),
      JObj(<<K("scene_id"), K("duration"), K("narration"), K("animation_type"), K("elements")>>,
           <<JInt(2), JInt(3), JStr(K("n")), JStr(K("shape")),
             JList(<<JStr(K("h")), JInt(7), Obj1("type", JStr(K("circle")))>>)>>),
      Obj1("scene_id", JStr(K("0"))),
      Obj1("scene_id", JStr(K("x"))),
      Obj3("id", JInt(2), "duration", JStr(K("x")), "description", JStr(K("d"))),
      Obj2("duration", JNull, "elements", JInt(5)),
      JInt(7),
      Obj2("elements", JList(<<FullElement>>), "actions", JList(<<JStr(K("a"))>>)),
      Obj3("elements", JList(<<>>), "actions", JList(<<JNull, JStr(K("a"))>>), "type", JStr(K("t"))),
      Obj2("elements", JStr(<<"a", "b">>), "duration", JList(<<>>)),
      Obj2("scene_id", JInt(1), "text", JStr(K("t"))) }

SceneLists == SeqsUpTo(SceneSamples, MaxScenes)

\* documents a model can answer with
Docs ==
    {Obj1("scenes", JList(ss)) : ss \in SceneLists}
    \cup {Obj2("title", JStr(K("T")), "scenes", JList(ss)) : ss \in SceneLists}
    \cup { Obj1("scenes", JInt(5)), Obj1("a", JInt(1)), JList(<<JInt(1)>>), JStr(K("hi")),
           JObj(<<>>, <<>>) }

SmallDocs == {d \in Docs : IsDict(d) /\ Len(Get(d, K("scenes"), JList(<<>>)).items) <= 1}

ScanAlphabet == {"{", "}", "x", "5", " "}

\* texts the completion backend can return
GenTexts ==
    SeqsUpTo(ScanAlphabet, MaxScanLen)
    \cup {Dumps(d) : d \in Docs}
    \cup {<<"x", " ">> \o Dumps(d) \o <<" ", "x">> : d \in SmallDocs}
    \cup {<<"{", "x", "}", " ">> \o Dumps(d) : d \in SmallDocs}
    \cup { <<"null">>, <<"x", "{", Q, "a", Q, ":", Q, "}", "{", Q, "}">>,
           <<"x", "{", Q, "a", Q, ":", Q, "}", Q, "}">> }

\* ------------------------------- generate_storyboard, from line 164 on

InitGen ==
    /\ result_text \in GenTexts
    /\ storyboard = JNull
    /\ start = 0
    /\ i = 0
    /\ count = 0
    /\ candidates = <<>>
    /\ fellBack = FALSE
    /\ raised = "none"
    /\ gpc = "parse"

IdleGen ==
    /\ result_text = <<>>
    /\ storyboard = JNull
    /\ start = 0
    /\ i = 0
    /\ count = 0
    /\ candidates = <<>>
    /\ fellBack = FALSE
    /\ raised = "none"
    /\ gpc = "idle"

\* lines 166-171: json.loads(result_text), and on JSONDecodeError the find
ParseDirect ==
    /\ gpc = "parse"
    /\ \E r \in {Loads(result_text)} :
          IF r.ok
          THEN /\ storyboard' = r.v
               /\ gpc' = "fallback"
               /\ UNCHANGED <<start, i>>
          ELSE /\ start' = Find(result_text, "{")
               /\ i' = start'
               /\ gpc' = IF start' # 0 THEN "scan" ELSE "fallback"
               /\ UNCHANGED storyboard
    /\ UNCHANGED <<result_text, count, candidates, fellBack, raised>>

\* the count after the symbol at i (lines 174-177)
CountAfter(c, sym) == IF sym = "{" THEN c + 1 ELSE IF sym = "}" THEN c - 1 ELSE c

\* the span the loop hands to json.loads at a "}" that brings count to 0 (line 179)
CandidateFrom(st, j) == st

\* lines 173-185: one pass of the scanning loop
ScanChar ==
    /\ gpc = "scan"
    /\ count' = CountAfter(count, result_text[i])
    /\ \E r \in {IF result_text[i] = "}" /\ count' = 0
                 THEN [tried |-> TRUE,
                       p |-> Loads(SubSeq(result_text, CandidateFrom(start, i), i))]
                 ELSE [tried |-> FALSE, p |-> PFail]} :
          /\ candidates' = IF r.tried
                           THEN Append(candidates, <<CandidateFrom(start, i), i, r.p.ok>>)
                           ELSE candidates
          /\ storyboard' = IF r.p.ok THEN r.p.v ELSE storyboard
          /\ gpc' = IF r.p.ok \/ i = Len(result_text) THEN "fallback" ELSE "scan"
          /\ i' = IF r.p.ok THEN i ELSE i + 1
    /\ UNCHANGED <<result_text, start, fellBack, raised>>

\* lines 187-210
BuildFallback ==
    /\ gpc = "fallback"
    /\ storyboard' = IF storyboard = JNull THEN FallbackStoryboard(result_text) ELSE storyboard
    /\ fellBack' = (storyboard = JNull)
    /\ gpc' = "normalize"
    /\ UNCHANGED <<result_text, start, i, count, candidates, raised>>

\* lines 265-266
NormalizeAndReturn ==
    /\ gpc = "normalize"
    /\ \E r \in {Normalize(storyboard)} :
          /\ raised' = r.err
          /\ storyboard' = IF r.err = "none" THEN r.v ELSE storyboard
          /\ gpc' = IF r.err = "none" THEN "returned" ELSE "raised"
    /\ UNCHANGED <<result_text, start, i, count, candidates, fellBack>>

\* ------------------------------------------ _normalize, applied twice

InitNorm ==
    /\ sb \in Docs
    /\ once = JNull
    /\ twice = JNull
    /\ npc = "first"

IdleNorm ==
    /\ sb = JNull
    /\ once = JNull
    /\ twice = JNull
    /\ npc = "idle"

NormalizeOnce ==
    /\ npc = "first"
    /\ \E r \in {Normalize(sb)} :
          /\ once' = r.v
          /\ npc' = IF r.err = "none" THEN "second" ELSE "raised"
    /\ UNCHANGED <<sb, twice>>

NormalizeTwice ==
    /\ npc = "second"
    /\ \E r \in {Normalize(once)} :
          /\ twice' = r.v
          /\ npc' = IF r.err = "none" THEN "done" ELSE "raised_again"
    /\ UNCHANGED <<sb, once>>

\* ------------------------------------------------------- OllamaLLM._call

MaxRetriesCfg == 3

MaxLines == 3

\* the lines response.iter_lines can yield
StreamLines ==
    { <<>>,
      <<"x">>,
      <<"5">>,
      Dumps(Obj1("response", JStr(K("a")))),
      Dumps(Obj2("response", JStr(K("b")), "done", JBool(FALSE))),
      Dumps(Obj2("response", JStr(K("c")), "done", JBool(TRUE))),
      Dumps(Obj1("done", JBool(TRUE))),
      Dumps(Obj1("response", JInt(5))) }

InitCall ==
    /\ ollama_max_retries \in -1..MaxRetriesCfg
    /\ attempt = 0
    /\ sent = 0
    /\ outcomes = <<>>
    /\ slept = <<>>
    /\ lines = <<>>
    /\ output = <<>>
    /\ call_result = <<>>
    /\ call_error = "none"
    /\ cpc = "post"

IdleCall ==
    /\ ollama_max_retries = 0
    /\ attempt = 0
    /\ sent = 0
    /\ outcomes = <<>>
    /\ slept = <<>>
    /\ lines = <<>>
    /\ output = <<>>
    /\ call_result = <<>>
    /\ call_error = "none"
    /\ cpc = "idle"

\* line 30
max_retries == IF ollama_max_retries > 1 THEN ollama_max_retries ELSE 1

\* line 40, with one retry too many
RetriesExhausted_OffByOne(a) == a > max_retries

\* line 40
RetriesExhausted(a) == a >= max_retries

RECURSIVE Pow2(_)
Pow2(e) == IF e = 0 THEN 1 ELSE 2 * Pow2(e - 1)

\* lines 35-37: the request succeeds
PostOk ==
    /\ cpc = "post"
    /\ sent' = sent + 1
    /\ outcomes' = Append(outcomes, "ok")
    /\ cpc' = "stream"
    /\ UNCHANGED <<ollama_max_retries, attempt, slept, lines, output, call_result, call_error>>

\* lines 38-41: the request times out reading
PostReadTimeout ==
    /\ cpc = "post"
    /\ sent' = sent + 1
    /\ outcomes' = Append(outcomes, "ReadTimeout")
    /\ attempt' = attempt + 1
    /\ IF RetriesExhausted(attempt + 1)
       THEN cpc' = "raised" /\ call_error' = "RuntimeError"
       ELSE cpc' = "sleep" /\ UNCHANGED call_error
    /\ UNCHANGED <<ollama_max_retries, slept, lines, output, call_result>>

\* line 42
Backoff ==
    /\ cpc = "sleep"
    /\ slept' = Append(slept, Pow2(attempt))
    /\ cpc' = "post"
    /\ UNCHANGED <<ollama_max_retries, attempt, sent, outcomes, lines, output, call_result,
                   call_error>>

\* lines 43-44
PostConnectionError ==
    /\ cpc = "post"
    /\ sent' = sent + 1
    /\ outcomes' = Append(outcomes, "ConnectionError")
    /\ cpc' = "raised"
    /\ call_error' = "RuntimeError"
    /\ UNCHANGED <<ollama_max_retries, attempt, slept, lines, output, call_result>>

\* lines 45-46: any other RequestException, raise_for_status's HTTPError included
PostRequestException ==
    /\ cpc = "post"
    /\ sent' = sent + 1
    /\ outcomes' = Append(outcomes, "RequestException")
    /\ cpc' = "raised"
    /\ call_error' = "RuntimeError"
    /\ UNCHANGED <<ollama_max_retries, attempt, slept, lines, output, call_result>>

\* lines 54-60 without the break of lines 57-58
LineEffect_NoBreak(obj) ==
    CASE obj.k = "obj" ->
            [add |-> IF HasKey(obj, K("response")) THEN <<Get(obj, K("response"), JNull)>> ELSE <<>>,
             done |-> FALSE]
      [] OTHER -> [add |-> <<>>, done |-> FALSE]

\* lines 54-60 for one parsed line: what is appended, and whether the loop breaks.
\* An exception inside the try (TypeError, AttributeError, KeyError) ends the
\* pass with what was appended before it.
LineEffect(obj) ==
    CASE obj.k = "obj" ->
            [add |-> IF HasKey(obj, K("response")) THEN <<Get(obj, K("response"), JNull)>> ELSE <<>>,
             done |-> Truthy(Get(obj, K("done"), JNull))]
      [] OTHER -> [add |-> <<>>, done |-> FALSE]

\* lines 50-60: one line of the stream
ConsumeLine ==
    /\ cpc = "stream"
    /\ Len(lines) < MaxLines
    /\ \E line \in StreamLines :
          \E r \in {IF line = <<>> THEN PFail ELSE Loads(line)} :
              \E eff \in {IF r.ok THEN LineEffect(r.v) ELSE [add |-> <<>>, done |-> FALSE]} :
                  /\ lines' = Append(lines, line)
                  /\ output' = output \o eff.add
                  /\ cpc' = IF eff.done THEN "join" ELSE "stream"
    /\ UNCHANGED <<ollama_max_retries, attempt, sent, outcomes, slept, call_result, call_error>>

\* line 50: the stream ends
StreamEnd ==
    /\ cpc = "stream"
    /\ cpc' = "join"
    /\ UNCHANGED <<ollama_max_retries, attempt, sent, outcomes, slept, lines, output,
                   call_result, call_error>>

\* lines 61-62: a read timeout while streaming
StreamReadTimeout ==
    /\ cpc = "stream"
    /\ cpc' = "raised"
    /\ call_error' = "RuntimeError"
    /\ UNCHANGED <<ollama_max_retries, attempt, sent, outcomes, slept, lines, output,
                   call_result>>

RECURSIVE JoinStr(_)
JoinStr(xs) == IF xs = <<>> THEN <<>> ELSE Head(xs).s \o JoinStr(Tail(xs))

\* line 64: "".join(output), a TypeError when an item is not a string
Join ==
    /\ cpc = "join"
    /\ IF \A x \in 1..Len(output) : IsStr(output[x])
       THEN call_result' = JoinStr(output) /\ cpc' = "returned" /\ UNCHANGED call_error
       ELSE call_error' = "TypeError" /\ cpc' = "raised" /\ UNCHANGED call_result
    /\ UNCHANGED <<ollama_max_retries, attempt, sent, outcomes, slept, lines, output>>

\* ------------------------------------------ ManimRenderer: inputs and steps

MaxElements == 2

MaxRenderScenes == 2

\* element entries a loaded storyboard can hold
ElementSamples ==
    { JObj(<<>>, <<>>),
      TextElement(JStr(K("hi"))),
      FullElement,
      Obj1("animation", JStr(<<"exit", "(", ")", " ", "or", " ", "FadeIn">>)),
      Obj2("type", JStr(K("equation")), "content", JStr(<<"a", Q, BS, NL, "'", "#">>)),
      Obj2("color", JStr(K("red")), "scale", JStr(<<"2", ")", ";", "x", "(", "1">>)),
      Obj2("type", JStr(K("star")), "color", JStr(<<"RED", ")", ";", "X", "(">>)),
      Obj1("position", JList(<<JInt(1)>>)),
      Obj1("position", JInt(5)),
      JStr(K("s")),
      Obj2("content", JNull, "color", JNull),
      Obj1("position", JList(<<JStr(<<"0", "]", ")", ";", "x", "(", "[">>), JInt(0)>>)) }

ElementLists == SeqsUpTo(ElementSamples, MaxElements)

\* scene entries a loaded storyboard can hold
RenderSceneSamples ==
    { JObj(<<>>, <<>>),
      JObj(<<K("scene_id"), K("duration"), K("narration"), K("animation_type"), K("elements")>>,
           <<JInt(1), JInt(5), JStr(K("n")), JStr(K("text")),
             JList(<<TextElement(JStr(K("hi")))>>)>>),
      Obj2("scene_id", JInt(1), "elements", JList(<<JObj(<<>>, <<>>), FullElement>>)),
      Obj2("narration", JStr(<<"a", NL, "x", "(", ")", CR, "b">>),
           "elements", JList(<<FullElement>>)),
      Obj2("duration", JStr(K("x")), "elements", JList(<<JObj(<<>>, <<>>)>>)),
      Obj2("duration", JInt(0), "elements", JList(<<JObj(<<>>, <<>>)>>)),
      Obj2("duration", JFloat(15), "elements", JList(<<JObj(<<>>, <<>>)>>)),
      Obj1("narration", JInt(5)),
      JInt(7),
      Obj2("scene_id", JStr(<<"1", NL, "x", "(", ")">>), "elements", JList(<<JObj(<<>>, <<>>)>>)),
      Obj1("elements", JInt(5)),
      Obj2("narration", JStr([j \in 1..9 |-> "abcdefghi"]), "elements", JList(<<>>)),
      Obj3("id", JInt(4), "description", JStr(K("d")), "elements", JList(<<FullElement>>)) }

\* texts a scene's description or narration can hold
NestedTexts ==
    { Dumps(Obj2("title", JStr(K("T")), "scenes",
                 JList(<<Obj2("scene_id", JInt(1), "elements", JList(<<FullElement>>))>>))),
      Dumps(Obj1("scenes", JList(<<JObj(<<>>, <<>>)>>))),
      <<" ">> \o Dumps(Obj3("title", JNull, "description", JStr(K("D")), "scenes", JList(<<>>))),
      Dumps(Obj1("scenes", JInt(5))),
      Dumps(Obj1("a", JInt(1))),
      Dumps(JList(<<Obj1("scenes", JList(<<>>))>>)),
      <<"x", " ", Q, "scene_id", Q>>,
      <<"{", "x">>,
      <<"plain">> }

\* the only scene of a document, holding the text t
NestingScenes(t) ==
    { Obj1("description", JStr(t)),
      Obj1("narration", JStr(t)),
      Obj2("narration", JStr(t), "description", JStr(K("d"))),
      Obj2("description", JStr(t), "narration", JStr(K("n"))) }

\* documents the storyboard file can hold
RenderDocs ==
    {Obj1("scenes", JList(<<Obj1("elements", JList(es))>>)) : es \in ElementLists}
    \cup {Obj1("scenes", JList(ss)) : ss \in SeqsUpTo(RenderSceneSamples, MaxRenderScenes)}
    \cup UNION {{Obj1("scenes", JList(<<s>>)),
                 Obj3("title", JStr(K("O")), "description", JStr(K("od")), "scenes", JList(<<s>>))}
                : s \in UNION {NestingScenes(t) : t \in NestedTexts}}
    \cup { JList(<<>>), Obj1("scenes", JInt(5)), Obj1("scenes", JStr(K("s"))), JObj(<<>>, <<>>),
           Obj1("title", JStr(K("T"))) }

InitRender ==
    /\ loaded \in RenderDocs
    /\ self_storyboard = JNull
    /\ scenes = <<>>
    /\ scene_i = 0
    /\ code = <<>>
    /\ render_error = "none"
    /\ rpc = "init"

IdleRender ==
    /\ loaded = JNull
    /\ self_storyboard = JNull
    /\ scenes = <<>>
    /\ scene_i = 0
    /\ code = <<>>
    /\ render_error = "none"
    /\ rpc = "idle"

\* line 10: self.storyboard = self._normalize_storyboard(loaded)
NormalizeLoaded ==
    /\ rpc = "init"
    /\ \E r \in {NormalizeStoryboard(loaded)} :
          /\ self_storyboard' = r.v
          /\ render_error' = r.err
          /\ rpc' = IF r.err = "none" THEN "generate" ELSE "raised"
    /\ UNCHANGED <<loaded, scenes, scene_i, code>>

\* lines 48-55: the header, and the scenes the loop will visit
BeginSceneCode ==
    /\ rpc = "generate"
    /\ \E it \in {IterOf(Get(self_storyboard, K("scenes"), JList(<<>>)))} :
          /\ scenes' = it.items
          /\ code' = Header
          /\ render_error' = IF it.ok THEN "none" ELSE "TypeError"
          /\ rpc' = IF it.ok THEN "scenes" ELSE "raised"
    /\ UNCHANGED <<loaded, self_storyboard, scene_i>>

\* lines 55-88: one pass of the loop over the scenes
EmitScene ==
    /\ rpc = "scenes"
    /\ scene_i < Len(scenes)
    /\ scene_i' = scene_i + 1
    /\ \E r \in {SceneCode(scenes[scene_i + 1], scene_i + 1)} :
          /\ code' = code \o r.code
          /\ render_error' = r.err
          /\ rpc' = IF r.err = "none" THEN "scenes" ELSE "raised"
    /\ UNCHANGED <<loaded, self_storyboard, scenes>>

\* lines 90-91
EndSceneCode ==
    /\ rpc = "scenes"
    /\ scene_i = Len(scenes)
    /\ code' = Append(code, FinalWait)
    /\ rpc' = "done"
    /\ UNCHANGED <<loaded, self_storyboard, scenes, scene_i, render_error>>

\* ---------------------------------------------------------- specifications

NextGen ==
    \/ ParseDirect /\ UNCHANGED <<normVars, callVars, renderVars>>
    \/ ScanChar /\ UNCHANGED <<normVars, callVars, renderVars>>
    \/ BuildFallback /\ UNCHANGED <<normVars, callVars, renderVars>>
    \/ NormalizeAndReturn /\ UNCHANGED <<normVars, callVars, renderVars>>

GenStart == InitGen /\ IdleNorm /\ IdleCall /\ IdleRender

SpecGen == GenStart /\ [][NextGen]_vars

NextNorm ==
    \/ NormalizeOnce /\ UNCHANGED <<genVars, callVars, renderVars>>
    \/ NormalizeTwice /\ UNCHANGED <<genVars, callVars, renderVars>>

NormStart == InitNorm /\ IdleGen /\ IdleCall /\ IdleRender

SpecNorm == NormStart /\ [][NextNorm]_vars

NextCall ==
    \/ PostOk /\ UNCHANGED <<genVars, normVars, renderVars>>
    \/ PostReadTimeout /\ UNCHANGED <<genVars, normVars, renderVars>>
    \/ Backoff /\ UNCHANGED <<genVars, normVars, renderVars>>
    \/ PostConnectionError /\ UNCHANGED <<genVars, normVars, renderVars>>
    \/ PostRequestException /\ UNCHANGED <<genVars, normVars, renderVars>>
    \/ ConsumeLine /\ UNCHANGED <<genVars, normVars, renderVars>>
    \/ StreamEnd /\ UNCHANGED <<genVars, normVars, renderVars>>
    \/ StreamReadTimeout /\ UNCHANGED <<genVars, normVars, renderVars>>
    \/ Join /\ UNCHANGED <<genVars, normVars, renderVars>>

CallStart == InitCall /\ IdleGen /\ IdleNorm /\ IdleRender

\* requests.post returns or raises within the timeout, iter_lines yields, ends or
\* times out within it, and time.sleep returns: no step of _call waits for ever
SpecCall == CallStart /\ [][NextCall]_vars /\ WF_vars(NextCall)

NextRender ==
    \/ NormalizeLoaded /\ UNCHANGED <<genVars, normVars, callVars>>
    \/ BeginSceneCode /\ UNCHANGED <<genVars, normVars, callVars>>
    \/ EmitScene /\ UNCHANGED <<genVars, normVars, callVars>>
    \/ EndSceneCode /\ UNCHANGED <<genVars, normVars, callVars>>

RenderStart == InitRender /\ IdleGen /\ IdleNorm /\ IdleCall

SpecRender == RenderStart /\ [][NextRender]_vars

\* ------------------------------------------------------------------ claims

Scenes(doc) == Get(doc, K("scenes"), JNull)

\* the brace depth after each prefix of t
DepthOf(t) ==
    LET D[j \in 0..Len(t)] == IF j = 0 THEN 0 ELSE CountAfter(D[j - 1], t[j])
    IN  D

\* t[a..b] is a balanced {...} span
BalancedSpan(t, a, b) ==
    LET D == DepthOf(t)
    IN  /\ t[a] = "{"
        /\ t[b] = "}"
        /\ D[b] = D[a - 1]
        /\ \A j \in a..(b - 1) : D[j] > D[a - 1]

HasBalancedSpan(t) ==
    \E a \in 1..Len(t) : t[a] = "{" /\ \E b \in (a + 1)..Len(t) : BalancedSpan(t, a, b)

IsDocument(v) == IsDict(v) /\ HasKey(v, K("scenes")) /\ IsList(Scenes(v))

\* C1: whatever text the backend returns, generate_storyboard returns without
\* raising, and what it returns is a document whose `scenes` is a list.
C1_NeverRaisesAlwaysDocument ==
    /\ gpc # "raised"
    /\ gpc = "returned" => IsDocument(storyboard)

\* C2: for a text with no balanced {...} substring the returned document has
\* exactly one scene, whose narration is non-empty and is the trimmed text.
C2_NoBraceTextIsNarration ==
    (gpc \in {"returned", "raised"} /\ ~HasBalancedSpan(result_text)) =>
        /\ gpc = "returned"
        /\ IsDocument(storyboard)
        /\ Len(Scenes(storyboard).items) = 1
        /\ Get(Scenes(storyboard).items[1], K("narration"), JNull) = JStr(Strip(result_text))
        /\ Strip(result_text) # <<>>

\* C3: _normalize is idempotent on a JSON object with a `scenes` array on which
\* it succeeds: normalizing the normalized document gives an equal document.
C3_NormalizeIdempotent ==
    (npc \in {"done", "raised_again"} /\ IsDocument(sb)) => (npc = "done" /\ twice = once)

\* the input scene as _normalize reads it
InputScene(j) == sb.items[KeyIndex(sb, K("scenes"))].items[j]

OutputScene(j) == Scenes(once).items[j]

Normalized == npc \in {"second", "done"} /\ IsDocument(sb)

\* C7: after normalization every scene_id is an integer, no two scenes share a
\* scene_id, and a scene given without scene_id has its 1-based position.
C7_SceneIdsIntegerUniquePositional ==
    Normalized =>
        LET n == Len(Scenes(once).items)
            id(j) == Get(OutputScene(j), K("scene_id"), JNull)
        IN  /\ \A j \in 1..n : id(j).k = "int"
            /\ \A j \in 1..n : \A m \in 1..n : j # m => id(j) # id(m)
            /\ \A j \in 1..n :
                  (~IsDict(InputScene(j)) \/ ~HasKey(InputScene(j), K("scene_id")))
                      => id(j) = JInt(j)

IsNumber(v) == v.k \in {"int", "float"}

\* C8: after normalization every duration is a number: the given one when it is
\* a number, and 5 when the scene has none or one that is not a number.
C8_DurationIsNumber ==
    Normalized =>
        \A j \in 1..Len(Scenes(once).items) :
            LET given == IF IsDict(InputScene(j)) THEN Get(InputScene(j), K("duration"), JNull)
                         ELSE JNull
                out == Get(OutputScene(j), K("duration"), JNull)
            IN  /\ IsNumber(out)
                /\ out = IF IsNumber(given) THEN given ELSE JInt(5)

\* the entries _normalize walks for input scene j: elements, else actions
GivenEntries(j) ==
    LET s == InputScene(j)
        es == IF ~IsDict(s) THEN JNull
              ELSE Or(Or(Get(s, K("elements"), JNull), Get(s, K("actions"), JNull)), JNull)
    IN  IF IsList(es) THEN es.items ELSE <<>>

Survives(e) == IsStr(e) \/ IsDict(e)

\* how many of the first m entries survive
SurvivorsUpTo(es, m) == Cardinality({x \in 1..m : Survives(es[x])})

ElementFields == {K("type"), K("content"), K("position"), K("color"), K("animation"), K("scale")}

StatedDefault(f) ==
    CASE f = K("type")      -> JStr(<<"text">>)
      [] f = K("content")   -> JStr(<<>>)
      [] f = K("position")  -> JList(<<JInt(0), JInt(0)>>)
      [] f = K("color")     -> JStr(<<"WHITE">>)
      [] f = K("animation") -> JStr(<<"FadeIn">>)
      [] f = K("scale")     -> JFloat(10)

HasEntriesList(j) ==
    IsDict(InputScene(j)) =>
        LET es == Or(Get(InputScene(j), K("elements"), JNull),
                     Get(InputScene(j), K("actions"), JNull))
        IN  IsList(es) \/ ~Truthy(es)

\* C9: a bare string becomes the default text element carrying it, an entry
\* that is neither a string nor an object is dropped, an object keeps its given
\* fields and gets the default for each missing one, survivors keep their
\* order, and every normalized element has exactly the six fields.
C9_ElementCoercion ==
    Normalized =>
        \A j \in 1..Len(Scenes(once).items) :
            /\ LET out == Get(OutputScene(j), K("elements"), JNull)
               IN  /\ IsList(out)
                   /\ \A m \in 1..Len(out.items) :
                         /\ Len(out.items[m].keys) = 6
                         /\ {out.items[m].keys[x] : x \in 1..6} = ElementFields
            /\ HasEntriesList(j) =>
                LET es == GivenEntries(j)
                    out == Get(OutputScene(j), K("elements"), JNull).items
                IN  /\ Len(out) = SurvivorsUpTo(es, Len(es))
                    /\ \A m \in 1..Len(es) :
                          Survives(es[m]) =>
                              LET o == out[SurvivorsUpTo(es, m)]
                              IN  \A f \in ElementFields :
                                      Get(o, f, JNull) =
                                          IF IsStr(es[m])
                                          THEN (IF f = K("content") THEN es[m] ELSE StatedDefault(f))
                                          ELSE Get(es[m], f, StatedDefault(f))

\* C9 witness: a scene given a string, a number and a partial object, normalized
C9_Witness ==
    /\ Normalized
    /\ \E j \in 1..Len(Scenes(once).items) :
          LET es == GivenEntries(j)
          IN  /\ HasEntriesList(j)
              /\ \E a, b, c \in 1..Len(es) :
                    /\ IsStr(es[a])
                    /\ es[b].k = "int"
                    /\ IsDict(es[c]) /\ ~HasKey(es[c], K("color"))
              /\ Len(Get(OutputScene(j), K("elements"), JNull).items) = 2

\* the end of the shortest balanced span that starts at a (0: none)
ShortestSpanEnd(t, a) ==
    IF \E b \in a..Len(t) : BalancedSpan(t, a, b)
    THEN CHOOSE b \in a..Len(t) : BalancedSpan(t, a, b) /\ \A c \in a..(b - 1) : ~BalancedSpan(t, a, c)
    ELSE 0

\* a complete JSON object lies in t after position p
ObjectAfter(t, p) ==
    \E a \in (p + 1)..Len(t) :
        /\ t[a] = "{"
        /\ \E b \in a..Len(t) :
              /\ t[b] = "}"
              /\ LET r == Loads(SubSeq(t, a, b)) IN r.ok /\ IsDict(r.v)

\* C10: when the text is not JSON, the first candidate is the shortest balanced
\* span from the first "{"; and when a candidate does not parse the scan goes
\* on, so a complete JSON object later in the text becomes the storyboard, not
\* the fallback.
C10_ExtractionRecoversLaterObject ==
    (gpc \in {"returned", "raised"} /\ ~Loads(result_text).ok) =>
        /\ candidates # <<>> =>
              /\ candidates[1][1] = Find(result_text, "{")
              /\ candidates[1][2] = ShortestSpanEnd(result_text, Find(result_text, "{"))
        /\ (candidates # <<>> /\ ~candidates[1][3] /\ ObjectAfter(result_text, candidates[1][2]))
              => ~fellBack

InRequestLoop == cpc \in {"post", "sleep"}

\* C6: a request is re-sent only after a read timeout; never more requests than
\* the retry count (at least 1), so the request loop always ends; the last
\* permitted attempt timing out ends the call with a RuntimeError; a connection
\* failure or another request error ends it with a RuntimeError at once, and no
\* request follows.
C6_BoundedRetry ==
    /\ [](/\ max_retries >= 1
          /\ sent <= max_retries
          /\ sent = Len(outcomes)
          /\ \A x \in 1..(Len(outcomes) - 1) : outcomes[x] = "ReadTimeout"
          /\ (sent = max_retries /\ outcomes[sent] = "ReadTimeout")
                => (cpc = "raised" /\ call_error = "RuntimeError")
          /\ (sent >= 1 /\ outcomes[sent] \in {"ConnectionError", "RequestException"})
                => (cpc = "raised" /\ call_error = "RuntimeError"))
    /\ [][cpc = "raised" => (cpc' = "raised" /\ sent' = sent)]_vars
    /\ <>(~InRequestLoop)

\* C6 witness: two retries were allowed, both requests timed out, the call raised
C6_Witness ==
    /\ max_retries >= 2
    /\ sent = max_retries
    /\ outcomes[sent] = "ReadTimeout"
    /\ slept # <<>>
    /\ cpc = "raised"

HasOneScene(doc) == IsDict(doc) /\ IsList(Scenes(doc)) /\ Len(Scenes(doc).items) = 1

OnlyScene(doc) == Scenes(doc).items[1]

\* v is a text that is the JSON encoding of a document with a `scenes` array
EncodesDocument(v) == IsStr(v) /\ Loads(v.s).ok /\ IsDocument(Loads(v.s).v)

MetaFields == {K("title"), K("description")}

\* self.storyboard is inner, with the outer title/description where inner has none
ReturnsInner(inner) ==
    /\ IsDict(self_storyboard)
    /\ \A f \in MetaFields :
          IF HasKey(inner, f) THEN Get(self_storyboard, f, JNull) = Get(inner, f, JNull)
          ELSE IF HasKey(loaded, f)
          THEN HasKey(self_storyboard, f) /\ Get(self_storyboard, f, JNull) = Get(loaded, f, JNull)
          ELSE ~HasKey(self_storyboard, f)
    /\ \A x \in 1..Len(inner.keys) :
          HasKey(self_storyboard, inner.keys[x])
          /\ (inner.keys[x] \notin MetaFields
                 => Get(self_storyboard, inner.keys[x], JNull) = inner.items[x])
    /\ \A x \in 1..Len(self_storyboard.keys) :
          HasKey(inner, self_storyboard.keys[x]) \/ self_storyboard.keys[x] \in MetaFields

\* the only scene of the loaded document holds an encoded document in field f,
\* and _normalize_storyboard has returned
NestedIn(f) ==
    /\ rpc # "init"
    /\ HasOneScene(loaded)
    /\ IsDict(OnlyScene(loaded))
    /\ EncodesDocument(Get(OnlyScene(loaded), f, JNull))

InnerIn(f) == Loads(Get(OnlyScene(loaded), f, JNull).s).v

\* C4, as stated: when the only scene's narration is the JSON encoding of an
\* inner document with a `scenes` array, _normalize_storyboard returns the inner
\* document, with the outer title/description only where the inner has none.
C4_NestedInNarration == NestedIn(K("narration")) => ReturnsInner(InnerIn(K("narration")))

\* C4, amended: when the only scene's description is the JSON encoding of an
\* inner document with a `scenes` array, _normalize_storyboard returns the inner
\* document, with the outer title/description only where the inner has none.
C4_NestedInDescription == NestedIn(K("description")) => ReturnsInner(InnerIn(K("description")))

\* C4 witness: an inner document without title in the description of the only
\* scene, beside a plain narration, and the outer title moved into the result
C4_Witness ==
    /\ NestedIn(K("description"))
    /\ HasKey(OnlyScene(loaded), K("narration"))
    /\ ~HasKey(InnerIn(K("description")), K("title"))
    /\ HasKey(loaded, K("title"))
    /\ self_storyboard # loaded
    /\ Get(self_storyboard, K("title"), JNull) = Get(loaded, K("title"), JNull)
    /\ Scenes(self_storyboard) = Scenes(InnerIn(K("description")))

\* how Python's tokenizer reads a line: the state after each symbol
LexStep(st, sym) ==
    CASE st = "code" ->
            IF sym = "#" THEN "comment" ELSE IF sym = Q THEN "dq" ELSE IF sym = "'" THEN "sq"
            ELSE "code"
      [] st = "comment" -> IF sym \in {NL, CR} THEN "code" ELSE "comment"
      [] st = "dq" ->
            IF sym = BS THEN "dq_esc" ELSE IF sym \in {Q, NL, CR} THEN "code" ELSE "dq"
      [] st = "sq" ->
            IF sym = BS THEN "sq_esc" ELSE IF sym \in {"'", NL, CR} THEN "code" ELSE "sq"
      [] st = "dq_esc" -> "dq"
      [] st = "sq_esc" -> "sq"

LexStates(syms) ==
    LET L[j \in 0..Len(syms)] == IF j = 0 THEN "code" ELSE LexStep(L[j - 1], syms[j])
    IN  L

\* the fields of the storyboard C5 names
StoryFields == {"content", "color", "animation", "scale", "position", "narration", "description"}

\* symbols a..b of the line are one interpolated value
IsRun(line, a, b) ==
    /\ a <= b
    /\ \A x \in a..b : line.of[x] = line.of[a]
    /\ a = 1 \/ line.of[a - 1] # line.of[a]
    /\ b = Len(line.of) \/ line.of[b + 1] # line.of[a]

InComment(line, a, b) == \A x \in (a - 1)..b : LexStates(line.syms)[x] = "comment"

\* symbols a..b are exactly one double-quoted string literal
IsStringLiteral(line, a, b) ==
    LET L == LexStates(line.syms)
    IN  /\ a < b
        /\ L[a - 1] = "code"
        /\ \A x \in a..(b - 1) : L[x] \in {"dq", "dq_esc"}
        /\ L[b] = "code"
        /\ line.syms[b] = Q

IdentifierChars == UpperChars \cup LowerChars \cup Digits \cup {"_"}

\* an all-uppercase identifier
IsUpperIdentifier(t) == IsUpper(t) /\ CharsOf(t) \subseteq IdentifierChars /\ t[1] \notin Digits

\* a number literal is not text
IsNumberText(t) == t # <<>> /\ ParseNumber(t, 1).ok /\ ParseNumber(t, 1).p = Len(t) + 1

\* C5: in the emitted program every value of the storyboard's content, color,
\* animation, scale, position and narration lies inside a comment or is a string
\* literal, but for an all-uppercase color emitted as a bare identifier: no text
\* of the storyboard is executable code.
C5_StoryboardTextIsNeverCode ==
    rpc = "done" =>
        \A n \in 1..Len(code) :
            \A a \in 1..Len(code[n].syms) :
                \A b \in a..Len(code[n].syms) :
                    (IsRun(code[n], a, b) /\ code[n].of[a] \in StoryFields) =>
                        \/ InComment(code[n], a, b)
                        \/ IsStringLiteral(code[n], a, b)
                        \/ code[n].of[a] = "color"
                           /\ IsUpperIdentifier(SubSeq(code[n].syms, a, b))
                        \/ IsNumberText(SubSeq(code[n].syms, a, b))

\* the lines emitted for the scene at position j, the blank line apart
LinesOf(j) == SelectSeq(code, LAMBDA l : l.scene = j /\ l.kind # "blank")

KindsOf(j) == [m \in 1..Len(LinesOf(j)) |-> LinesOf(j)[m].kind]

\* a scene object without elements, its narration a text (or none)
EmptyScene(s) ==
    /\ IsDict(s)
    /\ IterOf(Get(s, K("elements"), JList(<<>>))).ok
    /\ IterOf(Get(s, K("elements"), JList(<<>>))).items = <<>>
    /\ IsStr(SceneNarration(s)) \/ ~Truthy(SceneNarration(s))

\* the scenes the loop has been through without raising
ScenesEmitted == IF rpc = "raised" /\ scene_i >= 1 THEN scene_i - 1 ELSE scene_i

ElementsAt(j) == IterOf(Get(scenes[j], K("elements"), JList(<<>>))).items

\* the kinds of the lines of a scene with n elements, in the stated order
RECURSIVE StatedKinds(_)
StatedKinds(n) ==
    IF n = 0 THEN <<"comment">>
    ELSE StatedKinds(n - 1) \o <<"construct", "set_color", "scale", "move_to">>

\* the name the statements give element idx of the scene at position j
NameOf(j, idx) ==
    <<"elem_">> \o PyStr(Get(scenes[j], K("scene_id"), Get(scenes[j], K("id"), JInt(j))))
    \o <<"_">> \o IntSyms(idx)

\* a number of seconds, in tenths
Tenths(v) == IF v.k = "float" THEN v.n ELSE 10 * v.n

\* the seconds a wait line waits, in tenths
WaitedTenths(line) ==
    Tenths(ParseNumber(SubSeq(line.syms, 3, Len(line.syms) - 1), 1).v)

IsWaitLine(line) ==
    /\ Len(line.syms) >= 4
    /\ SubSeq(line.syms, 1, 2) = <<INDENT, "self.wait(">>
    /\ line.syms[Len(line.syms)] = ")"
    /\ IsNumberText(SubSeq(line.syms, 3, Len(line.syms) - 1))

\* the lines of the scene at position j that has n >= 1 elements
SceneInStatedOrder(j, n) ==
    LET ls == LinesOf(j)
        dur == Get(scenes[j], K("duration"), JInt(DEFAULT_DURATION))
    IN  /\ KindsOf(j) = StatedKinds(n) \o <<"play", "wait", "fadeout">>
        /\ SubSeq(ls[1].syms, 1, 3) = <<INDENT, "#", " Scene ">>
        /\ \A idx \in 0..(n - 1) :
              /\ \A m \in 1..4 : ls[1 + 4 * idx + m].elem = idx
              /\ SubSeq(ls[2 + 4 * idx].syms, 1, 1 + Len(NameOf(j, idx)))
                    = <<INDENT>> \o NameOf(j, idx)
              /\ Contains(ls[4 * n + 2].syms, <<"(">> \o NameOf(j, idx) \o <<")">>)
              /\ Contains(ls[4 * n + 4].syms, <<"FadeOut(">> \o NameOf(j, idx) \o <<")">>)
        /\ SubSeq(ls[4 * n + 2].syms, 1, 2) = <<INDENT, "self.play(">>
        /\ SubSeq(ls[4 * n + 4].syms, 1, 2) = <<INDENT, "self.play(">>
        /\ IsWaitLine(ls[4 * n + 3])
        /\ WaitedTenths(ls[4 * n + 3]) >= 0
        /\ WaitedTenths(ls[4 * n + 3])
              = IF Tenths(dur) - 10 > 0 THEN Tenths(dur) - 10 ELSE 0

\* C12: in the emitted program the scenes come in document order; a scene with
\* elements has its comment, the construction statements of its elements in
\* element order, one appear statement naming every element, one wait of
\* max(0, duration - 1) seconds, never negative, and one fade-out statement
\* naming every element; the program ends with exactly one one-second wait.
C12_StatementOrder ==
    rpc = "done" =>
        /\ \A x \in 1..Len(code) : \A y \in x..Len(code) :
              (code[x].scene >= 1 /\ code[y].scene >= 1) => code[x].scene <= code[y].scene
        /\ \A x \in 1..Len(code) :
              code[x].scene = 0 <=> (x <= Len(Header) \/ x = Len(code))
        /\ \A j \in 1..Len(scenes) :
              /\ LinesOf(j) # <<>>
              /\ ElementsAt(j) # <<>> => SceneInStatedOrder(j, Len(ElementsAt(j)))
        /\ code[Len(code)].syms = <<INDENT, "self.wait(1)">>
        /\ Cardinality({x \in 1..Len(code) : code[x].kind = "final_wait"}) = 1

\* C12 witness: a complete program of two scenes with elements, one of them with
\* two elements and one with a duration under a second, whose wait is 0
C12_Witness ==
    /\ rpc = "done"
    /\ Len(scenes) = 2
    /\ Len(ElementsAt(1)) = 2
    /\ Len(ElementsAt(2)) = 1
    /\ Get(scenes[2], K("duration"), JNull) = JInt(0)
    /\ WaitedTenths(LinesOf(2)[7]) = 0
    /\ WaitedTenths(LinesOf(1)[11]) = 20

\* the value a consumed line parses to, when it is a stream fragment (an object)
FragmentOf(line) == IF line = <<>> THEN PFail ELSE Loads(line)

IsFragment(line) == FragmentOf(line).ok /\ IsDict(FragmentOf(line).v)

\* the partial text of a consumed line: nothing for a blank or unparsable line
PartialText(line) ==
    IF IsFragment(line) /\ HasKey(FragmentOf(line).v, K("response"))
    THEN Get(FragmentOf(line).v, K("response"), JNull).s
    ELSE <<>>

CompletionSet(line) ==
    IsFragment(line) /\ Truthy(Get(FragmentOf(line).v, K("done"), JNull))

\* the position of the first fragment whose completion flag is set, or the end
FirstCompleted(ls) ==
    IF \E m \in 1..Len(ls) : CompletionSet(ls[m])
    THEN CHOOSE m \in 1..Len(ls) :
            CompletionSet(ls[m]) /\ \A x \in 1..(m - 1) : ~CompletionSet(ls[x])
    ELSE Len(ls)

RECURSIVE TextUpTo(_, _)
TextUpTo(ls, m) == IF m = 0 THEN <<>> ELSE TextUpTo(ls, m - 1) \o PartialText(ls[m])

\* C13: the returned text is the concatenation, in arrival order, of the partial
\* text of every fragment up to and including the first one whose completion
\* flag is set; nothing is consumed after that fragment, and a blank or
\* unparsable line neither ends consumption nor loses the text collected so far.
C13_StreamConcatenation ==
    /\ [](/\ cpc = "returned" => call_result = TextUpTo(lines, FirstCompleted(lines))
          /\ \A m \in 1..Len(lines) :
                CompletionSet(lines[m]) => (m = Len(lines) /\ cpc # "stream"))
    /\ [][(lines' # lines /\ ~IsFragment(lines'[Len(lines')])) =>
              (cpc' = "stream" /\ output' = output)]_vars

\* C13 witness: text, then an unparsable line, then the completing fragment with
\* text; the returned text is the first and the third text joined
C13_Witness ==
    /\ cpc = "returned"
    /\ Len(lines) = 3
    /\ PartialText(lines[1]) # <<>>
    /\ lines[2] # <<>> /\ ~FragmentOf(lines[2]).ok
    /\ CompletionSet(lines[3]) /\ PartialText(lines[3]) # <<>>
    /\ call_result = PartialText(lines[1]) \o PartialText(lines[3])


\* the construction statements of the program, by position in code
ConstructLines == {x \in 1..Len(code) : code[x].kind = "construct"}

\* the variable a construction statement assigns
AssignedName(x) == NameOf(code[x].scene, code[x].elem)

\* C14: in the emitted program every element-construction statement assigns a
\* variable name that no other element of the document, in the same or in
\* another scene, is assigned, so the appear and fade-out statements of a scene
\* refer to exactly the elements constructed for that scene.
C14_UniqueVariableNames ==
    \A x \in ConstructLines :
        /\ SubSeq(code[x].syms, 1, 1 + Len(AssignedName(x))) = <<INDENT>> \o AssignedName(x)
        /\ \A y \in ConstructLines : x # y => AssignedName(x) # AssignedName(y)

=============================================================================
